---- MODULE Spec2Model ----
(***************************************************************************)
(* Model of src/targets/node/nodeDelegate.ts: the per-target attach/detach *)
(* promise chain (NodeTarget), the target tree (NodeTarget._setParent,     *)
(* _disconnected) and the process supervisor (NodeLauncher, onProcessExit).*)
(* The three parts share no state and are checked by three                 *)
(* specifications: SpecAttach, SpecTree and SpecLauncher.                  *)
(***************************************************************************)
EXTENDS Integers, Sequences, FiniteSets, TLC

\* ------------------------------------------------------------------------
\* Bounds
\* ------------------------------------------------------------------------
\* number of attach()/detach() calls made on the one target of SpecAttach
MaxOps == 5

\* number of target identifiers the remote process hands out in SpecTree
NumTargets == 4

TargetIds == 1..NumTargets

\* "undefined" where a NodeTarget is expected
NoTarget == 0

\* number of launch()/restart() calls made on the launcher of SpecLauncher;
\* each creates at most one terminal, whose shell gets the next process id
MaxCalls == 2

\* number of sockets the listeners accept in SpecLauncher
MaxConns == 2

\* number of endpoint paths up to which other launchers of the same host
\* process start listeners in SpecLauncher
MaxPaths == 3

\* number of predictBreakpoints requests in SpecPredict
MaxPredictions == 2

Pids == 1..MaxCalls

VARIABLES
  \* ---- NodeLauncher and the process watcher ----
  counter,             \* the module-level counter of endpoint paths
  paths,               \* endpoint paths _startServer has produced, in order
  launchParams,        \* NodeLauncher._launchParams is set
  terminal,            \* NodeLauncher._terminal: pid of its shell, 0 if unset
  server,              \* NodeLauncher._server: its listener, 0 if unset
  pipe,                \* NodeLauncher._pipe: counter value in the path, 0 if unset
  listening,           \* net.Server objects that are listening
  connections,         \* NodeLauncher._connections
  openConns,           \* Connection objects that are not closed
  accepted,            \* number of sockets accepted so far
  isRestarting,        \* NodeLauncher._isRestarting
  calls,               \* launch()/restart() invocations and where each stands
  alive,               \* pids of the terminal shells that are running
  watchers,            \* pids with a live onProcessExit interval
  fired,               \* per pid: _onTerminatedEmitter.fire() calls of its watcher
  killedByRestart,     \* pids of running, watched shells restart() disposed
  exitCalls,           \* per pid: calls of the callback given to onProcessExit
  denied,              \* pids for which a probe has failed with EPERM
  predictions,         \* promises returned by onSetBreakpoints, in order
  launchBlocker,       \* _launchBlocker: the predictions folded into it
  \* ---- target tree ----
  targets,             \* NodeLauncher._targets: identifiers in the map
  parent,              \* NodeTarget._parent of every target object
  children,            \* NodeTarget._children of every target object
  created,             \* target objects constructed so far
  opener,              \* targetInfo.openerId each target was constructed with
  \* ---- NodeTarget attach state machine (one target) ----
  attached,            \* NodeTarget._attached
  waitingForDebugger,  \* NodeTarget._waitingForDebugger
  serialize,           \* NodeTarget._serialize: the chain of .then links
  attachCalls,         \* number of cdp.Target.attachToTarget calls issued
  detachCalls          \* number of cdp.Target.detachFromTarget calls issued

attachVars == <<attached, waitingForDebugger, serialize, attachCalls, detachCalls>>

treeVars == <<targets, parent, children, created, opener>>

\* what only the process watcher writes
watchHist == <<exitCalls, denied>>

\* what only predictBreakpoints and the predictor write
predictVars == <<predictions, launchBlocker>>

launcherVars == <<counter, paths, launchParams, terminal, server, pipe,
                  listening, connections, openConns, accepted, isRestarting,
                  calls, alive, watchers, fired, killedByRestart, watchHist,
                  predictVars>>

vars == <<attachVars, treeVars, launcherVars>>

\* ========================================================================
\* NodeTarget.attach / detach
\* ========================================================================
\* One link of the _serialize chain.
\*   kind    which method appended it
\*   state   of the link promise: pending (callback not run), awaiting
\*           (callback suspended at its await), fulfilled, rejected
\*   value   what the link promise settled with
\*   ran     the .then callback was entered
\*   remote  the remote call issued by the callback: none, inflight, ok, failed
\*   ret     what the promise returned to the caller settled with
\*   detached     the target was in state Detached when the call was made
\*   firstPending the oldest link that had not settled when the call was
\*                made, 0 if every link had
Link(kind, ret, det, first) ==
  [kind |-> kind, state |-> "pending", value |-> "none", ran |-> FALSE,
   remote |-> "none", ret |-> ret, detached |-> det, firstPending |-> first]

Settled(l) == l.state \in {"fulfilled", "rejected"}

Links == 1..Len(serialize)

InFlight == {i \in Links : serialize[i].remote = "inflight"}

\* a link whose predecessor has settled: its reaction is a queued microtask
Ready(i) ==
  /\ serialize[i].state = "pending"
  /\ i > 1 => Settled(serialize[i - 1])

\* microtasks run to completion before the event loop delivers I/O
NoMicrotaskReady == \A i \in Links : ~Ready(i)

\* the links settle in chain order, so the unsettled ones are a suffix
FirstPending ==
  IF \E i \in Links : ~Settled(serialize[i])
    THEN CHOOSE i \in Links :
           ~Settled(serialize[i]) /\ \A j \in 1..(i - 1) : Settled(serialize[j])
    ELSE 0

\* state Detached of the attach state machine: the flag is clear and no
\* attach/detach is queued or has its remote call outstanding
Detached == ~attached /\ FirstPending = 0 /\ InFlight = {}

canAttach == ~attached

canDetach == attached

\* attach(): append a link; the caller gets the link promise itself
attach ==
  /\ Len(serialize) < MaxOps
  /\ serialize' = Append(serialize,
        Link("attach", "pending", Detached, FirstPending))
  /\ UNCHANGED <<attached, waitingForDebugger, attachCalls, detachCalls>>

\* detach(): append a link; the async function returns without awaiting it
detach ==
  /\ Len(serialize) < MaxOps
  /\ serialize' = Append(serialize,
        Link("detach", "undefined", Detached, FirstPending))
  /\ UNCHANGED <<attached, waitingForDebugger, attachCalls, detachCalls>>

\* _doAttach up to its await: flags are set before the remote call is sent
doAttach(i) ==
  /\ waitingForDebugger' = FALSE
  /\ attached' = TRUE
  /\ attachCalls' = attachCalls + 1
  /\ serialize' = [serialize EXCEPT ![i].ran = TRUE, ![i].state = "awaiting",
                                    ![i].remote = "inflight"]
  /\ UNCHANGED detachCalls

\* variant: the "if (this._attached) return" guard is missing
attachCallbackNoGuard(i) == doAttach(i)

\* variant: the no-op branch hands out the protocol handle
attachCallbackHandle(i) ==
  IF attached
    THEN /\ serialize' = [serialize EXCEPT ![i].ran = TRUE,
                             ![i].state = "fulfilled", ![i].value = "cdp",
                             ![i].ret = "cdp"]
         /\ UNCHANGED <<attached, waitingForDebugger, attachCalls, detachCalls>>
    ELSE doAttach(i)

\* the callback of attach(): no-op when already attached
attachCallback(i) ==
  IF attached
    THEN /\ serialize' = [serialize EXCEPT ![i].ran = TRUE,
                             ![i].state = "fulfilled", ![i].value = "undefined",
                             ![i].ret = "undefined"]
         /\ UNCHANGED <<attached, waitingForDebugger, attachCalls, detachCalls>>
    ELSE doAttach(i)

\* _doDetach up to its await: the remote call is sent, nothing else changes
doDetach(i) ==
  /\ detachCalls' = detachCalls + 1
  /\ UNCHANGED <<attached, waitingForDebugger, attachCalls>>

\* variant: the "if (!this._attached) return undefined" guard is missing
detachCallbackNoGuard(i) ==
  /\ doDetach(i)
  /\ serialize' = [serialize EXCEPT ![i].ran = TRUE,
                      ![i].state = "fulfilled", ![i].value = "undefined",
                      ![i].remote = "inflight"]

\* the callback of detach(): _doDetach() is called but neither awaited nor
\* returned, so the link fulfils as soon as the remote call has been sent
detachCallback(i) ==
  IF ~attached
    THEN /\ serialize' = [serialize EXCEPT ![i].ran = TRUE,
                             ![i].state = "fulfilled", ![i].value = "undefined"]
         /\ UNCHANGED <<attached, waitingForDebugger, attachCalls, detachCalls>>
    ELSE /\ doDetach(i)
         /\ serialize' = [serialize EXCEPT ![i].ran = TRUE,
                             ![i].state = "fulfilled", ![i].value = "undefined",
                             ![i].remote = "inflight"]

\* promise.then(cb) on a rejected promise: cb is skipped, rejection passes on
skipLink(i) ==
  /\ serialize' = [serialize EXCEPT ![i].state = "rejected", ![i].value = "error",
                      ![i].ret = IF serialize[i].kind = "attach"
                                   THEN "error" ELSE serialize[i].ret]
  /\ UNCHANGED <<attached, waitingForDebugger, attachCalls, detachCalls>>

\* the reaction of link i once its predecessor has settled
runLink(i) ==
  /\ Ready(i)
  /\ IF i > 1 /\ serialize[i - 1].state = "rejected"
       THEN skipLink(i)
       ELSE IF serialize[i].kind = "attach" THEN attachCallback(i)
                                            ELSE detachCallback(i)

\* the reply to attachToTarget arrives: _doAttach resumes and returns _cdp,
\* or the await throws and the link rejects
attachReply(i, ok) ==
  /\ NoMicrotaskReady
  /\ serialize[i].kind = "attach"
  /\ serialize[i].remote = "inflight"
  /\ serialize' = IF ok
       THEN [serialize EXCEPT ![i].remote = "ok", ![i].state = "fulfilled",
                              ![i].value = "cdp", ![i].ret = "cdp"]
       ELSE [serialize EXCEPT ![i].remote = "failed", ![i].state = "rejected",
                              ![i].value = "error", ![i].ret = "error"]
  /\ UNCHANGED <<attached, waitingForDebugger, attachCalls, detachCalls>>

\* the reply to detachFromTarget arrives: _doDetach resumes and clears
\* _attached, or its promise rejects with nobody listening
detachReply(i, ok) ==
  /\ NoMicrotaskReady
  /\ serialize[i].kind = "detach"
  /\ serialize[i].remote = "inflight"
  /\ serialize' = [serialize EXCEPT ![i].remote = IF ok THEN "ok" ELSE "failed"]
  /\ attached' = IF ok THEN FALSE ELSE attached
  /\ UNCHANGED <<waitingForDebugger, attachCalls, detachCalls>>

\* ========================================================================
\* Target tree: NodeTarget constructor, _setParent, _disconnected
\* ========================================================================
\* Array.prototype.indexOf, 1-based; 0 stands for JavaScript's -1
indexOf(arr, x) ==
  IF \E k \in 1..Len(arr) : arr[k] = x
    THEN CHOOSE k \in 1..Len(arr) :
           arr[k] = x /\ \A m \in 1..(k - 1) : arr[m] # x
    ELSE 0

\* arr.splice(idx, 1); a start of -1 (here 0) counts from the end of arr
spliceOne(arr, idx) ==
  LET at == IF idx = 0 THEN Len(arr) ELSE idx
  IN  [k \in 1..(Len(arr) - (IF Len(arr) = 0 THEN 0 ELSE 1)) |->
         IF k < at THEN arr[k] ELSE arr[k + 1]]

\* variant: the target is not taken out of its old parent's children
setParentNoRemove(st, c, p) ==
  [parent   |-> [st.parent EXCEPT ![c] = p],
   children |-> IF p # NoTarget
                  THEN [st.children EXCEPT ![p] = Append(@, c)]
                  ELSE st.children]

\* c._setParent(p) on the links st = [parent, children]
setParent(st, c, p) ==
  LET old == st.parent[c]
      ch1 == IF old # NoTarget
               THEN [st.children EXCEPT
                       ![old] = spliceOne(@, indexOf(@, c))]
               ELSE st.children
      ch2 == IF p # NoTarget THEN [ch1 EXCEPT ![p] = Append(@, c)] ELSE ch1
  IN  [parent |-> [st.parent EXCEPT ![c] = p], children |-> ch2]

RECURSIVE forEachChild(_, _, _, _)
\* this._children.forEach(child => child._setParent(this._parent)):
\* forEach visits the indices k..len of the array as it is when each index
\* is reached, and skips an index that is no longer present
forEachChild(st, t, k, len) ==
  IF k > len THEN st
  ELSE IF k > Len(st.children[t]) THEN forEachChild(st, t, k + 1, len)
  ELSE forEachChild(setParent(st, st.children[t][k], st.parent[t]),
                    t, k + 1, len)

\* variant: the new target is registered before its opener is looked up
lookupOpenerAfterSet(tg, id, op) == IF op \in tg \cup {id} THEN op ELSE NoTarget

\* delegate._targets.get(targetInfo.openerId), evaluated before
\* delegate._targets.set(targetInfo.targetId, this)
lookupOpener(tg, id, op) == IF op \in tg THEN op ELSE NoTarget

\* new NodeTarget(...) for a target identifier not used before, with any
\* opener identifier (none, live, gone, never seen or the target's own)
NewTarget(id, op) ==
  /\ id \notin created
  /\ LET st == setParent([parent |-> parent, children |-> children],
                         id, lookupOpener(targets, id, op))
     IN  /\ parent' = st.parent
         /\ children' = st.children
  /\ targets' = targets \cup {id}
  /\ created' = created \cup {id}
  /\ opener' = [opener EXCEPT ![id] = op]

\* _disconnected(): the connection of a registered target has gone
Disconnected(t) ==
  /\ t \in targets
  /\ LET st0 == [parent |-> parent, children |-> children]
         st1 == forEachChild(st0, t, 1, Len(children[t]))
         st2 == setParent(st1, t, NoTarget)
     IN  /\ parent' = st2.parent
         /\ children' = st2.children
  /\ targets' = targets \ {t}
  /\ UNCHANGED <<created, opener>>

InitTree ==
  /\ targets = {}
  /\ parent = [t \in TargetIds |-> NoTarget]
  /\ children = [t \in TargetIds |-> <<>>]
  /\ created = {}
  /\ opener = [t \in TargetIds |-> NoTarget]

NextTree ==
  \/ \E id \in TargetIds, op \in TargetIds \cup {NoTarget} : NewTarget(id, op) /\ UNCHANGED <<attachVars, launcherVars>>
  \/ \E t \in TargetIds : Disconnected(t) /\ UNCHANGED <<attachVars, launcherVars>>

\* ========================================================================
\* NodeLauncher and onProcessExit
\* ========================================================================
\* The synchronous helpers are functions on a record of the fields they
\* touch, so that a handler can run several of them in source order.
LauncherState ==
  [counter |-> counter, paths |-> paths, terminal |-> terminal,
   server |-> server,
   pipe |-> pipe, listening |-> listening, connections |-> connections,
   openConns |-> openConns, alive |-> alive]

\* _killRuntime(): dispose the terminal, which ends its shell
killRuntime(st) ==
  IF st.terminal = 0 THEN st
  ELSE [st EXCEPT !.alive = @ \ {st.terminal}, !.terminal = 0]

\* the path built from the host process id and a counter value: the
\* prefix and process.pid are the same for every call in one process
endpointPath(n) == n

\* variant: the path uses counter + 1 but the counter is not advanced
startServerNoInc(st) ==
  [st EXCEPT !.pipe = endpointPath(st.counter + 1),
             !.paths = Append(@, endpointPath(st.counter + 1)),
             !.server = st.counter + 1,
             !.listening = @ \cup {st.counter + 1}]

\* _startServer(): a new path from ++counter and a new listener on it;
\* the previous value of _server is overwritten, not closed
startServer(st) ==
  [st EXCEPT !.counter = @ + 1, !.pipe = endpointPath(st.counter + 1),
             !.paths = Append(@, endpointPath(st.counter + 1)),
             !.server = st.counter + 1,
             !.listening = @ \cup {st.counter + 1}]

\* _stopServer(): close _server, close every connection, clear the list
stopServer(st) ==
  [st EXCEPT !.listening = @ \ {st.server}, !.server = 0,
             !.openConns = @ \ st.connections, !.connections = {}]

\* write a LauncherState back to the fields
Store(st) ==
  /\ counter' = st.counter
  /\ paths' = st.paths
  /\ terminal' = st.terminal
  /\ server' = st.server
  /\ pipe' = st.pipe
  /\ listening' = st.listening
  /\ connections' = st.connections
  /\ openConns' = st.openConns
  /\ alive' = st.alive

\* an invocation of launch() or restart(): blocker is the promise the
\* invocation awaits first, nPred the number of predictBreakpoints requests
\* issued before the invocation
Call(op, pc) ==
  [op |-> op, pc |-> pc, pid |-> 0, blocker |-> launchBlocker,
   nPred |-> Len(predictions)]

CallIds == 1..Len(calls)

\* Promise.all over the predictions b, nested as predictBreakpoints folds
\* them: rejected once one of them is, fulfilled when all of them are
blockerState(b) ==
  IF \E p \in b : predictions[p] = "failed" THEN "rejected"
  ELSE IF \A p \in b : predictions[p] = "ok" THEN "fulfilled"
  ELSE "pending"

\* an invocation suspended at an await of an already settled value resumes
\* in a microtask, before the event loop delivers timers or I/O
LauncherIdle ==
  \A c \in CallIds :
    /\ calls[c].pc \notin {"started", "clear"}
    /\ calls[c].pc = "blocker" => blockerState(calls[c].blocker) = "pending"

\* launch(params) up to "await this._launchBlocker"; without a command it
\* returns at once
launch(hasCommand) ==
  /\ Len(calls) < MaxCalls
  /\ calls' = Append(calls, Call("launch", IF hasCommand THEN "blocker" ELSE "done"))
  /\ UNCHANGED <<counter, paths, launchParams, terminal, server, pipe, listening,
                 connections, openConns, accepted, isRestarting, alive,
                 watchers, fired, killedByRestart>>

\* variant: the invocation waits for this._launchBlocker as it is when the
\* invocation resumes, not as it was when launch() was called
launchStartLate(c) ==
  /\ calls[c].pc = "blocker"
  /\ blockerState(launchBlocker) = "fulfilled"
  /\ launchParams' = TRUE
  /\ Store(startServer(LauncherState))
  /\ calls' = [calls EXCEPT ![c].pc = "started"]
  /\ UNCHANGED <<accepted, isRestarting, watchers, fired, killedByRestart>>

\* launch() from the launch blocker to "await this._startServer()"
launchStart(c) ==
  /\ calls[c].pc = "blocker"
  /\ blockerState(calls[c].blocker) = "fulfilled"
  /\ launchParams' = TRUE
  /\ Store(startServer(LauncherState))
  /\ calls' = [calls EXCEPT ![c].pc = "started"]
  /\ UNCHANGED <<accepted, isRestarting, watchers, fired, killedByRestart>>

\* launch() when "await this._launchBlocker" throws: the invocation ends
launchReject(c) ==
  /\ calls[c].pc = "blocker"
  /\ blockerState(calls[c].blocker) = "rejected"
  /\ calls' = [calls EXCEPT ![c].pc = "rejected"]
  /\ UNCHANGED <<counter, paths, launchParams, terminal, server, pipe, listening,
                 connections, openConns, accepted, isRestarting, alive,
                 watchers, fired, killedByRestart>>

\* variant: the new promise replaces the launch blocker
predictBreakpointsReplace ==
  /\ Len(predictions) < MaxPredictions
  /\ predictions' = Append(predictions, "pending")
  /\ launchBlocker' = {Len(predictions) + 1}

\* predictBreakpoints(params) of a launcher constructed with a rootPath:
\* the promise of onSetBreakpoints is folded into the launch blocker
predictBreakpoints ==
  /\ Len(predictions) < MaxPredictions
  /\ predictions' = Append(predictions, "pending")
  /\ launchBlocker' = launchBlocker \cup {Len(predictions) + 1}

\* the predictor settles the promise of one request
predictionDone(p, ok) ==
  /\ LauncherIdle
  /\ p \in 1..Len(predictions)
  /\ predictions[p] = "pending"
  /\ predictions' = [predictions EXCEPT ![p] = IF ok THEN "ok" ELSE "failed"]
  /\ UNCHANGED launchBlocker

\* restart() up to "await this._startServer()"
restart ==
  /\ Len(calls) < MaxCalls
  /\ isRestarting' = TRUE
  /\ killedByRestart' = killedByRestart \cup ({terminal} \cap alive \cap watchers)
  /\ Store(startServer(stopServer(killRuntime(LauncherState))))
  /\ calls' = Append(calls, Call("restart", "started"))
  /\ UNCHANGED <<launchParams, accepted, watchers, fired>>

\* _relaunch() up to "await this._terminal.processId"; reading
\* _launchParams.command throws when launch() never stored parameters
relaunchStart(c) ==
  /\ calls[c].pc = "started"
  /\ killedByRestart' = IF calls[c].op = "restart"
                          THEN killedByRestart \cup
                                 ({terminal} \cap alive \cap watchers)
                          ELSE killedByRestart
  /\ LET st == killRuntime(LauncherState)
         pid == Cardinality({k \in CallIds : calls[k].pid # 0}) + 1
     IN  IF launchParams
           THEN /\ Store([st EXCEPT !.terminal = pid, !.alive = @ \cup {pid}])
                /\ calls' = [calls EXCEPT ![c].pc = "pid", ![c].pid = pid]
           ELSE /\ Store(st)
                /\ calls' = [calls EXCEPT ![c].pc = "threw"]
  /\ UNCHANGED <<launchParams, accepted, isRestarting, watchers, fired>>

\* _relaunch() after the process id arrived: this._terminal.show() throws
\* when _terminal was cleared meanwhile, else the watcher is registered for
\* the pid of the terminal this call created; launch() is then finished,
\* restart() still has to resume from "await this._relaunch()"
relaunchFinish(c) ==
  /\ LauncherIdle
  /\ calls[c].pc = "pid"
  /\ IF terminal = 0
       THEN /\ calls' = [calls EXCEPT ![c].pc = "threw"]
            /\ UNCHANGED watchers
       ELSE /\ calls' = [calls EXCEPT ![c].pc =
                           IF calls[c].op = "restart" THEN "clear" ELSE "done"]
            /\ watchers' = watchers \cup {calls[c].pid}
  /\ UNCHANGED <<counter, paths, launchParams, terminal, server, pipe, listening,
                 connections, openConns, accepted, isRestarting, alive,
                 fired, killedByRestart>>

\* restart() after "await this._relaunch()"
restartFinish(c) ==
  /\ calls[c].pc = "clear"
  /\ isRestarting' = FALSE
  /\ calls' = [calls EXCEPT ![c].pc = "done"]
  /\ UNCHANGED <<counter, paths, launchParams, terminal, server, pipe, listening,
                 connections, openConns, accepted, alive, watchers, fired,
                 killedByRestart>>

\* terminate()
terminate ==
  /\ Store(stopServer(killRuntime(LauncherState)))
  /\ UNCHANGED <<launchParams, accepted, isRestarting, calls, watchers,
                 fired, killedByRestart>>

\* disconnect()
disconnect ==
  /\ Store(stopServer(killRuntime(LauncherState)))
  /\ UNCHANGED <<launchParams, accepted, isRestarting, calls, watchers,
                 fired, killedByRestart>>

\* dispose()
dispose ==
  /\ Store(stopServer(LauncherState))
  /\ UNCHANGED <<launchParams, accepted, isRestarting, calls, watchers,
                 fired, killedByRestart>>

\* _startServer() of another NodeLauncher of the same host process: of the
\* state modelled here it touches the module-level counter only
startServerElsewhere ==
  /\ Len(paths) < MaxPaths
  /\ counter' = counter + 1
  /\ paths' = Append(paths, endpointPath(counter + 1))
  /\ UNCHANGED <<launchParams, terminal, server, pipe, listening,
                 connections, openConns, accepted, isRestarting, calls,
                 alive, watchers, fired, killedByRestart>>

\* a listener accepts a socket: _startSession up to its await
startSession(l) ==
  /\ LauncherIdle
  /\ l \in listening
  /\ accepted < MaxConns
  /\ accepted' = accepted + 1
  /\ connections' = connections \cup {accepted + 1}
  /\ openConns' = openConns \cup {accepted + 1}
  /\ UNCHANGED <<counter, paths, launchParams, terminal, server, pipe, listening,
                 isRestarting, calls, alive, watchers, fired, killedByRestart>>

\* the shell of a terminal exits without the launcher having disposed it
processExit(pid) ==
  /\ pid \in alive
  /\ alive' = alive \ {pid}
  /\ UNCHANGED <<counter, paths, launchParams, terminal, server, pipe, listening,
                 connections, openConns, accepted, isRestarting, calls,
                 watchers, fired, killedByRestart>>

\* what process.kill(pid, 0) can do: return, or throw with this code;
\* EPERM also for a pid that went to a process of another user
probe(pid) == IF pid \in alive THEN {"ok", "EPERM"} ELSE {"ESRCH", "EPERM"}

\* variant: the callback does not look at _isRestarting
onExitCallbackAlways(pid) ==
  /\ Store(stopServer(LauncherState))
  /\ fired' = [fired EXCEPT ![pid] = @ + 1]

\* the callback _relaunch() hands to onProcessExit
onExitCallback(pid) ==
  IF ~isRestarting
    THEN /\ Store(stopServer(LauncherState))
         /\ fired' = [fired EXCEPT ![pid] = @ + 1]
    ELSE UNCHANGED <<counter, paths, terminal, server, pipe, listening, connections,
                     openConns, alive, fired>>

\* variant: clearInterval is missing
tickNoClear(pid, result) ==
  /\ LauncherIdle
  /\ pid \in watchers
  /\ result \in probe(pid)
  /\ denied' = IF result = "EPERM" THEN denied \cup {pid} ELSE denied
  /\ IF result \notin {"ok", "EPERM"}
       THEN /\ exitCalls' = [exitCalls EXCEPT ![pid] = @ + 1]
            /\ onExitCallback(pid)
       ELSE UNCHANGED <<counter, paths, terminal, server, pipe, listening,
                        connections, openConns, alive, fired, exitCalls>>
  /\ UNCHANGED <<launchParams, accepted, isRestarting, calls,
                 killedByRestart, watchers>>

\* one tick of the interval of onProcessExit(pid, callback): the probe
\* returns or throws; any error code but EPERM clears the interval and
\* calls the callback
tick(pid, result) ==
  /\ LauncherIdle
  /\ pid \in watchers
  /\ result \in probe(pid)
  /\ denied' = IF result = "EPERM" THEN denied \cup {pid} ELSE denied
  /\ IF result \notin {"ok", "EPERM"}
       THEN /\ watchers' = watchers \ {pid}
            /\ exitCalls' = [exitCalls EXCEPT ![pid] = @ + 1]
            /\ onExitCallback(pid)
       ELSE UNCHANGED <<counter, paths, terminal, server, pipe, listening,
                        connections, openConns, alive, fired, watchers,
                        exitCalls>>
  /\ UNCHANGED <<launchParams, accepted, isRestarting, calls, killedByRestart>>

InitLauncher ==
  /\ counter = 0
  /\ launchParams = FALSE
  /\ terminal = 0
  /\ server = 0
  /\ pipe = 0
  /\ listening = {}
  /\ connections = {}
  /\ openConns = {}
  /\ accepted = 0
  /\ isRestarting = FALSE
  /\ calls = <<>>
  /\ alive = {}
  /\ watchers = {}
  /\ fired = [p \in Pids |-> 0]
  /\ killedByRestart = {}
  /\ paths = <<>>
  /\ exitCalls = [p \in Pids |-> 0]
  /\ denied = {}
  /\ predictions = <<>>
  /\ launchBlocker = {}

\* a launcher constructed without a rootPath, alone in its host process
NextLauncher ==
  \/ \E hasCommand \in BOOLEAN : launch(hasCommand)
       /\ UNCHANGED <<attachVars, treeVars, watchHist, predictVars>>
  \/ \E c \in CallIds : launchStart(c)
       /\ UNCHANGED <<attachVars, treeVars, watchHist, predictVars>>
  \/ restart
       /\ UNCHANGED <<attachVars, treeVars, watchHist, predictVars>>
  \/ \E c \in CallIds : relaunchStart(c)
       /\ UNCHANGED <<attachVars, treeVars, watchHist, predictVars>>
  \/ \E c \in CallIds : relaunchFinish(c)
       /\ UNCHANGED <<attachVars, treeVars, watchHist, predictVars>>
  \/ \E c \in CallIds : restartFinish(c)
       /\ UNCHANGED <<attachVars, treeVars, watchHist, predictVars>>
  \/ terminate
       /\ UNCHANGED <<attachVars, treeVars, watchHist, predictVars>>
  \/ disconnect
       /\ UNCHANGED <<attachVars, treeVars, watchHist, predictVars>>
  \/ dispose
       /\ UNCHANGED <<attachVars, treeVars, watchHist, predictVars>>
  \/ \E l \in listening : startSession(l)
       /\ UNCHANGED <<attachVars, treeVars, watchHist, predictVars>>
  \/ \E pid \in Pids : processExit(pid)
       /\ UNCHANGED <<attachVars, treeVars, watchHist, predictVars>>
  \/ \E pid \in Pids, result \in {"ok", "EPERM", "ESRCH"} : tick(pid, result)
       /\ UNCHANGED <<attachVars, treeVars, predictVars>>

\* the launcher next to other launchers of the same host process, which
\* share the module-level counter: the operations that start and stop
\* listeners
NextPaths ==
  \/ \E hasCommand \in BOOLEAN : launch(hasCommand)
       /\ UNCHANGED <<attachVars, treeVars, watchHist, predictVars>>
  \/ \E c \in CallIds : launchStart(c)
       /\ UNCHANGED <<attachVars, treeVars, watchHist, predictVars>>
  \/ restart
       /\ UNCHANGED <<attachVars, treeVars, watchHist, predictVars>>
  \/ \E c \in CallIds : relaunchStart(c)
       /\ UNCHANGED <<attachVars, treeVars, watchHist, predictVars>>
  \/ \E c \in CallIds : relaunchFinish(c)
       /\ UNCHANGED <<attachVars, treeVars, watchHist, predictVars>>
  \/ \E c \in CallIds : restartFinish(c)
       /\ UNCHANGED <<attachVars, treeVars, watchHist, predictVars>>
  \/ terminate
       /\ UNCHANGED <<attachVars, treeVars, watchHist, predictVars>>
  \/ dispose
       /\ UNCHANGED <<attachVars, treeVars, watchHist, predictVars>>
  \/ startServerElsewhere
       /\ UNCHANGED <<attachVars, treeVars, watchHist, predictVars>>

\* a launcher constructed with a rootPath, which has a breakpoints
\* predictor: launch() and the prediction requests
NextPredict ==
  \/ \E hasCommand \in BOOLEAN : launch(hasCommand)
       /\ UNCHANGED <<attachVars, treeVars, watchHist, predictVars>>
  \/ \E c \in CallIds : launchStart(c)
       /\ UNCHANGED <<attachVars, treeVars, watchHist, predictVars>>
  \/ \E c \in CallIds : launchReject(c)
       /\ UNCHANGED <<attachVars, treeVars, watchHist, predictVars>>
  \/ \E c \in CallIds : relaunchStart(c)
       /\ UNCHANGED <<attachVars, treeVars, watchHist, predictVars>>
  \/ \E c \in CallIds : relaunchFinish(c)
       /\ UNCHANGED <<attachVars, treeVars, watchHist, predictVars>>
  \/ terminate
       /\ UNCHANGED <<attachVars, treeVars, watchHist, predictVars>>
  \/ predictBreakpoints
       /\ UNCHANGED <<attachVars, treeVars, watchHist>>
       /\ UNCHANGED <<counter, paths, launchParams, terminal, server, pipe,
                      listening, connections, openConns, accepted,
                      isRestarting, calls, alive, watchers, fired,
                      killedByRestart>>
  \/ \E p \in 1..MaxPredictions, ok \in BOOLEAN : predictionDone(p, ok)
       /\ UNCHANGED <<attachVars, treeVars, watchHist>>
       /\ UNCHANGED <<counter, paths, launchParams, terminal, server, pipe,
                      listening, connections, openConns, accepted,
                      isRestarting, calls, alive, watchers, fired,
                      killedByRestart>>

InitAttach ==
  /\ attached = FALSE
  /\ waitingForDebugger \in BOOLEAN
  /\ serialize = <<>>
  /\ attachCalls = 0
  /\ detachCalls = 0

NextAttach ==
  \/ attach /\ UNCHANGED <<treeVars, launcherVars>>
  \/ detach /\ UNCHANGED <<treeVars, launcherVars>>
  \/ \E i \in Links : runLink(i) /\ UNCHANGED <<treeVars, launcherVars>>
  \/ \E i \in Links, ok \in BOOLEAN : attachReply(i, ok) /\ UNCHANGED <<treeVars, launcherVars>>
  \/ \E i \in Links, ok \in BOOLEAN : detachReply(i, ok) /\ UNCHANGED <<treeVars, launcherVars>>

Init == InitAttach /\ InitTree /\ InitLauncher

SpecAttach == Init /\ [][NextAttach]_vars

SpecTree == Init /\ [][NextTree]_vars

SpecLauncher == Init /\ [][NextLauncher]_vars

SpecPaths == Init /\ [][NextPaths]_vars

SpecPredict == Init /\ [][NextPredict]_vars

\* ------------------------------------------------------------------------
\* Properties of the launcher
\* ------------------------------------------------------------------------
\* C10: restart() never fires "terminated": the watcher of a process whose
\* running shell restart() disposed never fires the notification, whenever
\* its poll detects the death, also after restart() has returned.
C10_RestartNeverTerminates ==
  \A pid \in killedByRestart : fired[pid] = 0

\* the watcher of pid detects the death of its process in this step
DeathDetected(pid) == pid \in watchers /\ pid \notin watchers'

\* C11: when the death of a spawned process is detected while isRestarting
\* is false, the launcher stops the listener and fires "terminated" for
\* that exit exactly once: it had not fired for it before, fires once in
\* that step, and fires for it in no other step.
C11_TerminatedOncePerExit ==
  [][\A pid \in Pids :
       IF DeathDetected(pid) /\ ~isRestarting
         THEN /\ fired[pid] = 0
              /\ fired'[pid] = 1
              /\ server' = 0
              /\ server \notin listening'
              /\ connections' = {}
         ELSE fired'[pid] = fired[pid]]_vars

\* the shell of the current terminal exited by itself and its watcher has
\* fired the notification and stopped the listener
C11_Witness ==
  \E pid \in Pids :
    /\ terminal = pid
    /\ pid \notin alive
    /\ pid \notin watchers
    /\ fired[pid] = 1
    /\ server = 0

\* a launch() that got past "await this._launchBlocker"
Started(c) ==
  calls[c].op = "launch" /\
    (calls[c].pc \in {"started", "pid", "threw"} \/ calls[c].pid # 0)

EarlierCompleted(c) == \A p \in 1..calls[c].nPred : predictions[p] = "ok"

\* C13: a launch() has started its listener only if every prediction
\* requested before the launch() call has completed, and a launch() whose
\* earlier predictions have all completed can start its listener whatever
\* the state of the predictions requested after the call.
C13_LaunchWaitsForEarlier ==
  \A c \in CallIds :
    /\ Started(c) => EarlierCompleted(c)
    /\ (calls[c].op = "launch" /\ calls[c].pc = "blocker"
          /\ EarlierCompleted(c)) => ENABLED launchStart(c)

\* a launch() called between two predictions has started while the later
\* one is pending
C13_Witness ==
  \E c \in CallIds :
    /\ Started(c) /\ calls[c].nPred = 1
    /\ Len(predictions) > 1 /\ predictions[2] = "pending"

\* C14: the endpoint paths produced by all _startServer calls of one host
\* process, by launch() and restart() of any launcher, are pairwise
\* distinct.
C14_PathsDistinct ==
  \A i, j \in 1..Len(paths) : i # j => paths[i] # paths[j]

\* a launch() and a restart() of this launcher and a start by another
\* launcher have produced three paths
C14_Witness ==
  /\ Len(paths) >= 3
  /\ \E c \in CallIds : calls[c].op = "launch" /\ calls[c].pc # "blocker"
  /\ \E c \in CallIds : calls[c].op = "restart"
  /\ Len(paths) > Len(calls)

\* C15: a probe that fails with EPERM calls no callback and leaves the
\* poll running; the callback of a pid is called only in the step in
\* which its poll is cancelled, which a probe failing with any other
\* error does; and it is called at most once per watcher.
C15_ProbeTolerance ==
  [][\A pid \in Pids :
       /\ pid \in denied' \ denied =>
            (pid \in watchers' /\ exitCalls' = exitCalls)
       /\ tick(pid, "EPERM") => (pid \in watchers' /\ exitCalls' = exitCalls)
       /\ tick(pid, "ESRCH") =>
            (pid \notin watchers' /\ exitCalls'[pid] = exitCalls[pid] + 1)
       /\ exitCalls'[pid] # exitCalls[pid] => DeathDetected(pid)
       /\ exitCalls'[pid] <= 1]_vars

\* a watcher whose probe failed with EPERM kept polling and later called
\* the callback, once
C15_Witness ==
  \E pid \in denied : pid \notin watchers /\ exitCalls[pid] = 1

\* C12: a launcher has at most one open transport listener in every
\* reachable state.
C12_OneListener == Cardinality(listening) <= 1

\* C19: once the listener is stopped the launcher accepts no connection,
\* every accepted connection is closed and the connection list is empty;
\* and an open connection is always in the connection list.
C19_StoppedMeansClosed ==
  /\ openConns \subseteq connections
  /\ server = 0 => (listening = {} /\ connections = {} /\ openConns = {})

\* ------------------------------------------------------------------------
\* Properties of the attach state machine
\* ------------------------------------------------------------------------
NoRemoteFailure == \A i \in Links : serialize[i].remote # "failed"

AllSettled == \A i \in Links : Settled(serialize[i])

\* attach() calls i..j, the first made in state Detached and the others
\* before the first one completed
ConcurrentAttaches(i, j) ==
  /\ i < j
  /\ \A k \in i..j : serialize[k].kind = "attach"
  /\ serialize[i].detached
  /\ \A k \in (i + 1)..j : serialize[k].firstPending = i

\* the calls among i..j whose callback sent attachToTarget
Issued(i, j) == {k \in i..j : serialize[k].remote # "none"}

C3_FailedAttachLeavesDetached ==
  \A i \in Links :
    (serialize[i].kind = "attach" /\ serialize[i].remote = "failed") =>
      /\ serialize[i].ret = "error"
      /\ ~attached
      /\ canAttach
      /\ ~canDetach

\* C4: a failed remote call does not block the queue: a link is never
\* settled without its callback having run, and an attach() whose link
\* settles after a failed attach has sent attachToTarget again.
C4_QueueNotBlocked ==
  \A i \in Links :
    Settled(serialize[i]) =>
      /\ serialize[i].ran
      /\ (serialize[i].kind = "attach" /\
            \E j \in 1..(i - 1) : serialize[j].kind = "attach" /\
                                  serialize[j].remote = "failed")
           => serialize[i].remote # "none"

\* C5: at most one remote attachToTarget/detachFromTarget call of the
\* target is outstanding in every reachable state.
C5_OneInFlight == Cardinality(InFlight) <= 1

RECURSIVE ApplyInOrder(_, _)
\* the attached flag after running the first n operations one after another
ApplyInOrder(n, flag) ==
  IF n = 0 THEN flag
  ELSE serialize[n].kind = "attach" \/
       (serialize[n].kind # "detach" /\ ApplyInOrder(n - 1, flag))

\* C6: operations take effect in enqueue order: a callback runs only when
\* no earlier operation still has its remote call outstanding, and once
\* everything has completed without a remote failure the attached flag is
\* the one obtained by applying the operations one after another.
C6_FifoEffect ==
  /\ \A i \in Links : serialize[i].ran =>
        \A j \in 1..(i - 1) : serialize[j].remote # "inflight"
  /\ (AllSettled /\ InFlight = {} /\ NoRemoteFailure) =>
        attached = ApplyInOrder(Len(serialize), FALSE)

AttachState ==
  IF \E i \in InFlight : serialize[i].kind = "attach" THEN "Attaching"
  ELSE IF \E i \in InFlight : serialize[i].kind = "detach" THEN "Detaching"
  ELSE IF attached THEN "Attached"
  ELSE "Detached"

\* C17: canAttach() is true exactly in state Detached and canDetach()
\* exactly in state Attached; both are false while a remote attach or
\* detach call is in flight.
C17_CanAttachIffDetached ==
  /\ canAttach <=> (AttachState = "Detached")
  /\ canDetach <=> (AttachState = "Attached")

\* C18: when the promise returned by detach() on an attached target
\* resolves, detachFromTarget has been sent and answered and attached is
\* false.
C18_DetachResolvesDetached ==
  [][\A i \in 1..Len(serialize') :
       (/\ i > Len(serialize)
        /\ serialize'[i].kind = "detach"
        /\ AttachState = "Attached"
        /\ FirstPending = 0
        /\ serialize'[i].ret = "undefined") =>
         /\ serialize'[i].remote = "ok"
         /\ ~attached']_vars

\* ------------------------------------------------------------------------
\* Properties of the target tree
\* ------------------------------------------------------------------------
Elems(arr) == {arr[k] : k \in 1..Len(arr)}

Occurrences(arr, x) == Cardinality({k \in 1..Len(arr) : arr[k] = x})

\* C7: when a target disconnects, each of its children gets the target's own
\* parent as parent, no target keeps the disconnected target as parent, and
\* the disconnected target's children list is empty.
C7_AllChildrenReparented ==
  [][\A t \in TargetIds :
       (t \in targets /\ t \notin targets') =>
         /\ \A c \in Elems(children[t]) : parent'[c] = parent[t]
         /\ \A c \in TargetIds : parent'[c] # t
         /\ children'[t] = <<>>]_vars

\* C8: parent and children links agree in every reachable state: c occurs
\* in p's children list, and then exactly once, iff c's parent is p.
C8_LinksConsistent ==
  \A c, p \in TargetIds :
    /\ Occurrences(children[p], c) <= 1
    /\ (Occurrences(children[p], c) = 1) <=> (parent[c] = p)

\* a child that was promoted to its grandparent by a disconnection
C8_Witness ==
  \E c \in targets :
    /\ opener[c] \in created \ targets
    /\ parent[c] \in targets
    /\ parent[c] # opener[c]
    /\ Occurrences(children[parent[c]], c) = 1

RECURSIVE Ancestor(_, _)
\* the k-th target up the parent links from c, NoTarget past a root
Ancestor(c, k) ==
  IF k = 0 \/ c = NoTarget THEN c ELSE Ancestor(parent[c], k - 1)

\* C9: the tree is acyclic: following parent links from a target never
\* comes back to that target.
C9_Acyclic ==
  \A c \in TargetIds : \A k \in 1..NumTargets : Ancestor(c, k) # c

\* targets were created with their own identifier and with a never-seen
\* identifier as opener and became roots, another one has a parent, and
\* one has gone
C9_Witness ==
  /\ \E c \in created : opener[c] = c /\ parent[c] = NoTarget
  /\ \E c \in created : opener[c] # NoTarget /\ opener[c] \notin created
  /\ \E c \in targets : parent[c] # NoTarget
  /\ created # targets

\* C20: every target in the launcher's map has no parent or a parent that
\* is in the map too.
C20_ParentsAreLive ==
  \A t \in targets : parent[t] = NoTarget \/ parent[t] \in targets

====
